---- MODULE Spec2Model ----
(***************************************************************************)
(* The wallet output-manager in-memory store of                            *)
(* base_layer/wallet/src/output_manager_service/storage/memory_db.rs:      *)
(* InnerDatabase behind one RwLock, shared by concurrent clients.          *)
(*                                                                         *)
(* An UnblindedOutput is identified by its spending key; the model keeps   *)
(* the key and nothing else of an output.  Every section of code that runs *)
(* while the write lock is held is one atomic step.  The two bulk          *)
(* operations release the lock after taking their snapshot and re-acquire  *)
(* it for every cancellation, so they are several steps.                   *)
(***************************************************************************)
EXTENDS Integers, Sequences, FiniteSets, TLC

VARIABLES
    db,     \* the InnerDatabase behind Arc<RwLock<..>>
    now,    \* Utc::now(), in ticks
    pc,     \* per client: "idle", or the bulk operation it is in the middle of
    todo,   \* per client: the tx_ids its bulk operation has still to cancel
    last,   \* the locked section executed by the latest step, and what it returned
    call,   \* per client: a call issued and waiting for the write lock (race scenario)
    start,  \* the store when the scenario under observation began
    open,   \* since `start`: the tx_ids encumbered and not yet cancelled, the change outputs given
    lwma_diff,  \* TimeStampAdjustment::lwma_diff, the difficulty window (None in the wallet scenarios)
    lock    \* the client whose guard on the RwLock of db outlives its step (None: the lock is free)

vars == <<db, now, pc, todo, last, call, start, open, lwma_diff, lock>>

\* ------------------------------------------------------------------ bounds
MaxKey == 2
MaxTx == 2
MaxClient == 2
MaxOutputs == 2
MaxBundles == 2
MaxConcOutputs == 1
MaxSend == 2
MaxTime == 1
MaxIndex == 1

Keys == 1..MaxKey
TxIds == 1..MaxTx
Clients == 1..MaxClient
Times == 0..MaxTime

\* ------------------------------------------------------------------ values
Ok == "Ok"
DuplicateOutput == "DuplicateOutput"
ValueNotFound == "ValueNotFound"
ValuesNotFound == "ValuesNotFound"
OperationNotSupported == "OperationNotSupported"
KeyManagerNotInitialized == "KeyManagerNotInitialized"
DurationOutOfRange == "DurationOutOfRange"

\* Option<T>: the empty sequence is None, <<v>> is Some(v).
NoneVal == <<>>
Some(v) == <<v>>
IsSome(o) == Len(o) = 1
Unwrap(o) == o[1]

\* Sequences over S of length at most n.
SeqUpTo(S, n) == UNION {[1..m -> S] : m \in 0..n}

\* Sequences that list every element of the finite set S once (an iteration
\* order of a HashMap with key set S).
RECURSIVE Orders(_)
Orders(S) ==
    IF S = {} THEN {<<>>}
    ELSE UNION {{<<x>> \o o : o \in Orders(S \ {x})} : x \in S}

Range(s) == {s[i] : i \in 1..Len(s)}

\* Number of occurrences of k in the sequence s.
Count(s, k) == Cardinality({i \in 1..Len(s) : s[i] = k})

\* HashMap::insert and HashMap::remove.
MapInsert(m, k, v) == [x \in DOMAIN m \cup {k} |-> IF x = k THEN v ELSE m[x]]
MapRemove(m, k) == [x \in DOMAIN m \ {k} |-> m[x]]
EmptyMap == [x \in {} |-> 0]

\* iter().position(|v| v.spending_key == k): index of the first match, 0 for None.
position(list, k) ==
    IF \E i \in 1..Len(list) : list[i] = k
    THEN CHOOSE i \in 1..Len(list) : list[i] = k /\ \A j \in 1..(i - 1) : list[j] # k
    ELSE 0

\* Vec::remove(pos): the list without its element at pos.
remove(list, pos) == SubSeq(list, 1, pos - 1) \o SubSeq(list, pos + 1, Len(list))

\* iter().any(|v| v.spending_key == k)
any(list, k) == \E i \in 1..Len(list) : list[i] = k

InnerDatabase_new ==
    [unspent_outputs |-> <<>>,
     spent_outputs |-> <<>>,
     invalid_outputs |-> <<>>,
     pending_transactions |-> EmptyMap,
     short_term_pending_transactions |-> EmptyMap,
     key_manager_state |-> NoneVal]

PendingTransactionOutputs(tx_id, spent, received, timestamp) ==
    [tx_id |-> tx_id,
     outputs_to_be_spent |-> spent,
     outputs_to_be_received |-> received,
     timestamp |-> timestamp]

KeyManagerState(i) == [primary_key_index |-> i]

\* What a locked section hands back: the store it leaves, the Result, and the
\* value inside Ok(Some(..)) when there is one.
Ret(d, res, val) == [db |-> d, res |-> res, val |-> val]

\* ------------------------------------------------------------------ write
Insert(key, k, v) == [type |-> "Insert", key |-> key, k |-> k, v |-> v]
Remove(key, k) == [type |-> "Remove", key |-> key, k |-> k, v |-> 0]

BulkKeys ==
    {"UnspentOutputs", "SpentOutputs", "AllPendingTransactionOutputs",
     "KeyManagerState", "InvalidOutputs"}

\* A write(Insert) whose duplicate check looks only in the set it inserts into.
write_insert_own_set(d, op) ==
    CASE op.key = "SpentOutput" ->
            IF any(d.spent_outputs, op.k)
            THEN Ret(d, DuplicateOutput, NoneVal)
            ELSE Ret([d EXCEPT !.spent_outputs = Append(@, op.v)], Ok, NoneVal)
      [] op.key = "UnspentOutput" ->
            IF any(d.unspent_outputs, op.k)
            THEN Ret(d, DuplicateOutput, NoneVal)
            ELSE Ret([d EXCEPT !.unspent_outputs = Append(@, op.v)], Ok, NoneVal)
      [] op.key = "PendingTransactionOutputs" ->
            Ret([d EXCEPT !.pending_transactions = MapInsert(@, op.k, op.v)], Ok, NoneVal)
      [] op.key = "KeyManagerState" ->
            Ret([d EXCEPT !.key_manager_state = Some(op.v)], Ok, NoneVal)

write_insert(d, op) ==
    CASE op.key = "SpentOutput" ->
            IF any(d.spent_outputs, op.k) \/ any(d.unspent_outputs, op.k)
            THEN Ret(d, DuplicateOutput, NoneVal)
            ELSE Ret([d EXCEPT !.spent_outputs = Append(@, op.v)], Ok, NoneVal)
      [] op.key = "UnspentOutput" ->
            IF any(d.unspent_outputs, op.k) \/ any(d.spent_outputs, op.k)
            THEN Ret(d, DuplicateOutput, NoneVal)
            ELSE Ret([d EXCEPT !.unspent_outputs = Append(@, op.v)], Ok, NoneVal)
      [] op.key = "PendingTransactionOutputs" ->
            Ret([d EXCEPT !.pending_transactions = MapInsert(@, op.k, op.v)], Ok, NoneVal)
      [] op.key = "KeyManagerState" ->
            Ret([d EXCEPT !.key_manager_state = Some(op.v)], Ok, NoneVal)

write_remove(d, op) ==
    CASE op.key = "SpentOutput" ->
            LET pos == position(d.spent_outputs, op.k) IN
            IF pos = 0 THEN Ret(d, ValueNotFound, NoneVal)
            ELSE Ret([d EXCEPT !.spent_outputs = remove(@, pos)], Ok,
                     Some(d.spent_outputs[pos]))
      [] op.key = "UnspentOutput" ->
            LET pos == position(d.unspent_outputs, op.k) IN
            IF pos = 0 THEN Ret(d, ValueNotFound, NoneVal)
            ELSE Ret([d EXCEPT !.unspent_outputs = remove(@, pos)], Ok,
                     Some(d.unspent_outputs[pos]))
      [] op.key = "PendingTransactionOutputs" ->
            IF op.k \in DOMAIN d.pending_transactions
            THEN Ret([d EXCEPT !.pending_transactions = MapRemove(@, op.k)], Ok,
                     Some(d.pending_transactions[op.k]))
            ELSE Ret(d, ValueNotFound, NoneVal)
      [] op.key \in BulkKeys -> Ret(d, OperationNotSupported, NoneVal)

write(d, op) ==
    IF op.type = "Insert" THEN write_insert(d, op) ELSE write_remove(d, op)

\* ------------------------------------------------------------------ fetch
DbKey(key, k) == [key |-> key, k |-> k]

DbValue(type, v) == [type |-> type, v |-> v]

\* iter().find(|v| &v.spending_key == k).map(|v| DbValue::..(v.clone()))
find(list, k, type) ==
    IF any(list, k) THEN Some(DbValue(type, list[position(list, k)])) ELSE NoneVal

\* pending_transactions.clone() with every entry of short_term_pending_transactions
\* inserted over it.
all_pending(d) ==
    [t \in DOMAIN d.pending_transactions \cup DOMAIN d.short_term_pending_transactions |->
        IF t \in DOMAIN d.short_term_pending_transactions
        THEN d.short_term_pending_transactions[t]
        ELSE d.pending_transactions[t]]

fetch(d, key) ==
    CASE key.key = "SpentOutput" -> Ret(d, Ok, find(d.spent_outputs, key.k, key.key))
      [] key.key = "UnspentOutput" -> Ret(d, Ok, find(d.unspent_outputs, key.k, key.key))
      [] key.key = "PendingTransactionOutputs" ->
            Ret(d, Ok,
                IF key.k \in DOMAIN d.pending_transactions
                THEN Some(DbValue(key.key, d.pending_transactions[key.k]))
                ELSE IF key.k \in DOMAIN d.short_term_pending_transactions
                THEN Some(DbValue(key.key, d.short_term_pending_transactions[key.k]))
                ELSE NoneVal)
      [] key.key = "UnspentOutputs" -> Ret(d, Ok, Some(DbValue(key.key, d.unspent_outputs)))
      [] key.key = "SpentOutputs" -> Ret(d, Ok, Some(DbValue(key.key, d.spent_outputs)))
      [] key.key = "AllPendingTransactionOutputs" ->
            Ret(d, Ok, Some(DbValue(key.key, all_pending(d))))
      [] key.key = "KeyManagerState" ->
            Ret(d, Ok,
                IF IsSome(d.key_manager_state)
                THEN Some(DbValue(key.key, Unwrap(d.key_manager_state)))
                ELSE NoneVal)
      [] key.key = "InvalidOutputs" -> Ret(d, Ok, Some(DbValue(key.key, d.invalid_outputs)))

\* ------------------------------------------------------------------ bundles
\* let mut pending_tx = db.pending_transactions.remove(&tx_id);
\* if pending_tx.is_none() { pending_tx = db.short_term_pending_transactions.remove(&tx_id); }
\* The store after the removal and the Option that was removed.
take_pending_tx(d, tx_id) ==
    IF tx_id \in DOMAIN d.pending_transactions
    THEN [db |-> [d EXCEPT !.pending_transactions = MapRemove(@, tx_id)],
          tx |-> Some(d.pending_transactions[tx_id])]
    ELSE IF tx_id \in DOMAIN d.short_term_pending_transactions
    THEN [db |-> [d EXCEPT !.short_term_pending_transactions = MapRemove(@, tx_id)],
          tx |-> Some(d.short_term_pending_transactions[tx_id])]
    ELSE [db |-> d, tx |-> NoneVal]

confirm_transaction(d, tx_id) ==
    LET t == take_pending_tx(d, tx_id) IN
    IF ~IsSome(t.tx) THEN Ret(t.db, ValueNotFound, NoneVal)
    ELSE Ret([t.db EXCEPT
                !.spent_outputs = @ \o Unwrap(t.tx).outputs_to_be_spent,
                !.unspent_outputs = @ \o Unwrap(t.tx).outputs_to_be_received],
             Ok, NoneVal)

\* The for loop of short_term_encumber_outputs from its i-th output on: every
\* output found is removed from unspent at once; the first one missing returns.
RECURSIVE encumber_loop(_, _, _, _)
encumber_loop(unspent, outputs_to_send, i, outputs_to_be_spent) ==
    IF i > Len(outputs_to_send)
    THEN [found |-> TRUE, unspent |-> unspent, outputs_to_be_spent |-> outputs_to_be_spent]
    ELSE LET pos == position(unspent, outputs_to_send[i]) IN
         IF pos = 0
         THEN [found |-> FALSE, unspent |-> unspent,
               outputs_to_be_spent |-> outputs_to_be_spent]
         ELSE encumber_loop(remove(unspent, pos), outputs_to_send, i + 1,
                            Append(outputs_to_be_spent, unspent[pos]))

\* change_output is an Option; timestamp is Utc::now() of the call.
short_term_encumber_outputs(d, tx_id, outputs_to_send, change_output, timestamp) ==
    LET l == encumber_loop(d.unspent_outputs, outputs_to_send, 1, <<>>)
        d1 == [d EXCEPT !.unspent_outputs = l.unspent]
    IN  IF ~l.found THEN Ret(d1, ValuesNotFound, NoneVal)
        ELSE Ret([d1 EXCEPT !.short_term_pending_transactions =
                     MapInsert(@, tx_id,
                         PendingTransactionOutputs(tx_id, l.outputs_to_be_spent,
                                                   change_output, timestamp))],
                 Ok, NoneVal)

\* A confirm_encumbered_outputs that looks the bundle up the way confirm_transaction
\* does, in pending first.
confirm_encumbered_outputs_any_map(d, tx_id) ==
    LET t == take_pending_tx(d, tx_id) IN
    IF ~IsSome(t.tx) THEN Ret(t.db, ValueNotFound, NoneVal)
    ELSE Ret([t.db EXCEPT !.pending_transactions =
                 MapInsert(@, Unwrap(t.tx).tx_id, Unwrap(t.tx))],
             Ok, NoneVal)

confirm_encumbered_outputs(d, tx_id) ==
    IF tx_id \notin DOMAIN d.short_term_pending_transactions
    THEN Ret(d, ValueNotFound, NoneVal)
    ELSE LET pending_tx == d.short_term_pending_transactions[tx_id] IN
         Ret([d EXCEPT
                !.short_term_pending_transactions = MapRemove(@, tx_id),
                !.pending_transactions = MapInsert(@, pending_tx.tx_id, pending_tx)],
             Ok, NoneVal)

\* A cancel_pending_transaction that drains outputs_to_be_received too, the way
\* confirm_transaction does.
cancel_pending_transaction_keeps_change(d, tx_id) ==
    LET t == take_pending_tx(d, tx_id) IN
    IF ~IsSome(t.tx) THEN Ret(t.db, ValueNotFound, NoneVal)
    ELSE Ret([t.db EXCEPT !.unspent_outputs =
                 @ \o Unwrap(t.tx).outputs_to_be_spent
                   \o Unwrap(t.tx).outputs_to_be_received],
             Ok, NoneVal)

cancel_pending_transaction(d, tx_id) ==
    LET t == take_pending_tx(d, tx_id) IN
    IF ~IsSome(t.tx) THEN Ret(t.db, ValueNotFound, NoneVal)
    ELSE Ret([t.db EXCEPT !.unspent_outputs = @ \o Unwrap(t.tx).outputs_to_be_spent],
             Ok, NoneVal)

\* An invalidate_unspent_output that records the output as invalid before it
\* looks for it in unspent.
invalidate_unspent_output_marks_first(d, output) ==
    LET pos == position(d.unspent_outputs, output)
        d1 == [d EXCEPT !.invalid_outputs = Append(@, output)]
    IN  IF pos = 0 THEN Ret(d1, ValuesNotFound, NoneVal)
        ELSE Ret([d1 EXCEPT !.unspent_outputs = remove(@, pos)], Ok, NoneVal)

\* An invalidate_unspent_output that pushes a clone of the output to invalid and
\* leaves the output in unspent.
invalidate_unspent_output_keeps_unspent(d, output) ==
    LET pos == position(d.unspent_outputs, output) IN
    IF pos = 0 THEN Ret(d, ValuesNotFound, NoneVal)
    ELSE Ret([d EXCEPT !.invalid_outputs = Append(@, d.unspent_outputs[pos])],
             Ok, NoneVal)

invalidate_unspent_output(d, output) ==
    LET pos == position(d.unspent_outputs, output) IN
    IF pos = 0 THEN Ret(d, ValuesNotFound, NoneVal)
    ELSE Ret([d EXCEPT !.unspent_outputs = remove(@, pos),
                       !.invalid_outputs = Append(@, d.unspent_outputs[pos])],
             Ok, NoneVal)

\* An increment_key_index that increments the clone of the state and does not
\* store it back.
increment_key_index_on_clone(d) ==
    IF ~IsSome(d.key_manager_state) THEN Ret(d, KeyManagerNotInitialized, NoneVal)
    ELSE Ret(d, Ok, NoneVal)

increment_key_index(d) ==
    IF ~IsSome(d.key_manager_state) THEN Ret(d, KeyManagerNotInitialized, NoneVal)
    ELSE Ret([d EXCEPT !.key_manager_state =
                 Some([Unwrap(@) EXCEPT !.primary_key_index = @ + 1])],
             Ok, NoneVal)

\* ------------------------------------------------------------------ bulk operations
\* The snapshot clear_short_term_encumberances takes under the lock: the keys of the
\* cloned short-term map, in each order the HashMap may iterate them.
clear_snapshot(d) == Orders(DOMAIN d.short_term_pending_transactions)

\* ChronoDuration::from_std(period): a period is given by what the conversion makes
\* of it, None when it is out of chrono's range, Some(ticks) otherwise.
from_std(period) == period

expired(pt, period, t) == pt.timestamp + Unwrap(from_std(period)) < t

\* A collection loop that falls back to a zero duration when the conversion
\* fails (unwrap_or_else in place of `?`).
timeout_collect_or_zero(d, period, t) ==
    LET p == IF IsSome(from_std(period)) THEN period ELSE Some(0)
        P == {x \in DOMAIN d.pending_transactions :
                 expired(d.pending_transactions[x], p, t)}
        S == {x \in DOMAIN d.short_term_pending_transactions :
                 expired(d.short_term_pending_transactions[x], p, t)}
    IN [res |-> Ok, lists |-> {a \o b : a \in Orders(P), b \in Orders(S)}]

\* The collection loop of timeout_pending_transactions: the conversion runs once
\* per bundle visited, so it fails only when there is a bundle to visit.
\* The lists it can collect: the expired tx_ids of pending, then those of
\* short_term_pending, each in an iteration order of its HashMap.
timeout_collect(d, period, t) ==
    IF ~IsSome(from_std(period))
    THEN IF DOMAIN d.pending_transactions \cup DOMAIN d.short_term_pending_transactions = {}
         THEN [res |-> Ok, lists |-> {<<>>}]
         ELSE [res |-> DurationOutOfRange, lists |-> {}]
    ELSE LET P == {x \in DOMAIN d.pending_transactions :
                      expired(d.pending_transactions[x], period, t)}
             S == {x \in DOMAIN d.short_term_pending_transactions :
                      expired(d.short_term_pending_transactions[x], period, t)}
         IN [res |-> Ok, lists |-> {p \o s : p \in Orders(P), s \in Orders(S)}]

\* ------------------------------------------------------------------ inputs
MaxPeriod == 1

Periods == {NoneVal} \cup {Some(n) : n \in 0..MaxPeriod}

\* Option<UnblindedOutput>
ChangeOutputs == {NoneVal} \cup {Some(k) : k \in Keys}

SendLists == SeqUpTo(Keys, MaxSend)

\* The bundles a caller hands to write(Insert(PendingTransactionOutputs(t, p))): built
\* for tx_id t at the time of the call.
InsertableBundles(t) ==
    {PendingTransactionOutputs(t, s, r, now) :
        s \in SeqUpTo(Keys, 1), r \in SeqUpTo(Keys, 1)}

\* The operations handed to write, by the type of what they carry.
OutputWrites ==
    {Insert("SpentOutput", k, k) : k \in Keys}
    \cup {Insert("UnspentOutput", k, k) : k \in Keys}
    \cup {Remove("SpentOutput", k) : k \in Keys}
    \cup {Remove("UnspentOutput", k) : k \in Keys}

PendingWrites ==
    UNION {{Insert("PendingTransactionOutputs", t, p) : p \in InsertableBundles(t)} :
              t \in TxIds}

KeyManagerWrites == {Insert("KeyManagerState", 0, KeyManagerState(0))}

OtherRemoves ==
    {Remove("PendingTransactionOutputs", t) : t \in TxIds}
    \cup {Remove(b, 0) : b \in BulkKeys}

\* The keys handed to fetch.
DbKeys ==
    {DbKey("SpentOutput", k) : k \in Keys}
    \cup {DbKey("UnspentOutput", k) : k \in Keys}
    \cup {DbKey("PendingTransactionOutputs", t) : t \in TxIds}
    \cup {DbKey(b, 0) : b \in BulkKeys}

\* The outputs held by the bundles of a map, counted with repetition.
RECURSIVE HeldBy(_)
HeldBy(m) ==
    IF DOMAIN m = {} THEN 0
    ELSE LET t == CHOOSE x \in DOMAIN m : TRUE IN
         Len(m[t].outputs_to_be_spent) + Len(m[t].outputs_to_be_received)
             + HeldBy(MapRemove(m, t))

TotalOutputs(d) ==
    Len(d.unspent_outputs) + Len(d.spent_outputs) + Len(d.invalid_outputs)
        + HeldBy(d.pending_transactions) + HeldBy(d.short_term_pending_transactions)

TotalBundles(d) ==
    Cardinality(DOMAIN d.pending_transactions)
        + Cardinality(DOMAIN d.short_term_pending_transactions)

\* The lists, the maps and the counter grow without limit in the code; the model
\* explores the stores that hold at most MaxOutputs outputs, MaxBundles bundles
\* and an index up to MaxIndex.
Bounded(d) ==
    /\ TotalOutputs(d) <= MaxOutputs
    /\ TotalBundles(d) <= MaxBundles
    /\ IsSome(d.key_manager_state) =>
          Unwrap(d.key_manager_state).primary_key_index <= MaxIndex

\* ------------------------------------------------------------------ steps
Idle == "idle"
NoCall == [op |-> "", arg |-> <<>>, res |-> ""]
NoTrip == [txs |-> {}, changes |-> {}]

\* The record of a step: the locked section `op` ran on `key` (the kind of DbKey
\* or key-value pair, for write) and `id` (a tx_id or a spending key, 0 when the
\* section takes none) and returned `res`; `public` is the operation the client
\* called, `returned` whether that call has returned with this step (its result
\* is then `res`).
Did(public, op, key, id, res, returned) ==
    [public |-> public, op |-> op, key |-> key, id |-> id, res |-> res,
     returned |-> returned]

\* The locked section of a public operation that has only one.
Locked(c, op, key, id, r) ==
    /\ pc[c] = Idle
    /\ lock = NoneVal
    /\ Bounded(r.db)
    /\ db' = r.db
    /\ last' = Did(op, op, key, id, r.res, TRUE)
    /\ UNCHANGED <<now, pc, todo, call, start, lwma_diff, lock>>

\* A public operation that is a single locked section.
Atomic(c, op, key, id, r) ==
    /\ Locked(c, op, key, id, r)
    /\ UNCHANGED open

WriteKey(op) == <<op.type, op.key>>

WriteOutput(c) ==
    \E op \in OutputWrites : Atomic(c, "write", WriteKey(op), op.k, write(db, op))

WritePending(c) ==
    \E op \in PendingWrites : Atomic(c, "write", WriteKey(op), op.k, write(db, op))

WriteKeyManager(c) ==
    \E op \in KeyManagerWrites : Atomic(c, "write", WriteKey(op), op.k, write(db, op))

WriteRemove(c) ==
    \E op \in OtherRemoves : Atomic(c, "write", WriteKey(op), op.k, write(db, op))

\* fetch runs under the read lock and leaves the store as it is.
Fetch(c) ==
    \E key \in DbKeys : Atomic(c, "fetch", <<key.key>>, key.k, fetch(db, key))

ConfirmTransaction(c) ==
    \E t \in TxIds :
        Atomic(c, "confirm_transaction", <<>>, t, confirm_transaction(db, t))

ShortTermEncumberOutputsCall(c, t, outs, co) ==
    Atomic(c, "short_term_encumber_outputs", <<>>, t,
           short_term_encumber_outputs(db, t, outs, co, now))

ShortTermEncumberOutputs(c) ==
    \E t \in TxIds, outs \in SendLists, co \in ChangeOutputs :
        ShortTermEncumberOutputsCall(c, t, outs, co)

ConfirmEncumberedOutputs(c) ==
    \E t \in TxIds :
        Atomic(c, "confirm_encumbered_outputs", <<>>, t,
               confirm_encumbered_outputs(db, t))

CancelPendingTransaction(c) ==
    \E t \in TxIds :
        Atomic(c, "cancel_pending_transaction", <<>>, t,
               cancel_pending_transaction(db, t))

InvalidateUnspentOutput(c) ==
    \E k \in Keys :
        Atomic(c, "invalidate_unspent_output", <<>>, k,
               invalidate_unspent_output(db, k))

IncrementKeyIndex(c) ==
    Atomic(c, "increment_key_index", <<>>, 0, increment_key_index(db))

\* A snapshot that keeps its guard on the lock.
drop_forgotten(guard) == guard

\* drop(db): the guard is given up and the lock is free.
drop(guard) == NoneVal

\* clear_short_term_encumberances up to drop(db): the snapshot.  With nothing to
\* cancel the loop is empty and the call returns Ok.
ClearSnapshot(c) ==
    /\ pc[c] = Idle
    /\ lock = NoneVal
    /\ \E o \in clear_snapshot(db) :
         /\ pc' = [pc EXCEPT ![c] = IF o = <<>> THEN Idle
                                    ELSE "clear_short_term_encumberances"]
         /\ todo' = [todo EXCEPT ![c] = o]
         /\ last' = Did("clear_short_term_encumberances",
                        "clear_short_term_encumberances", <<>>, 0, Ok, o = <<>>)
         /\ lock' = IF o = <<>> THEN NoneVal ELSE drop(Some(c))
    /\ UNCHANGED <<db, now, open, lwma_diff>>

ClearShortTermEncumberances(c) ==
    /\ ClearSnapshot(c)
    /\ UNCHANGED <<call, start>>

\* timeout_pending_transactions(period) up to drop(db): the collection.
TimeoutCollect(c, period) ==
    /\ pc[c] = Idle
    /\ lock = NoneVal
    /\ LET col == timeout_collect(db, period, now) IN
         IF col.res # Ok
         THEN /\ last' = Did("timeout_pending_transactions",
                             "timeout_pending_transactions", <<>>, 0, col.res, TRUE)
              /\ UNCHANGED <<pc, todo, lock>>
         ELSE \E o \in col.lists :
                /\ pc' = [pc EXCEPT ![c] = IF o = <<>> THEN Idle
                                           ELSE "timeout_pending_transactions"]
                /\ todo' = [todo EXCEPT ![c] = o]
                /\ last' = Did("timeout_pending_transactions",
                               "timeout_pending_transactions", <<>>, 0, Ok, o = <<>>)
                /\ lock' = IF o = <<>> THEN NoneVal ELSE drop(Some(c))
    /\ UNCHANGED <<db, now, open, lwma_diff>>

TimeoutPendingTransactions(c) ==
    /\ \E period \in Periods : TimeoutCollect(c, period)
    /\ UNCHANGED <<call, start>>

\* One turn of the loop of a bulk operation: self.cancel_pending_transaction(t)?
\* An error returns from the bulk operation at once; the last Ok returns Ok.
CancelTurn(c) ==
    /\ pc[c] # Idle
    /\ lock = NoneVal
    /\ LET t == Head(todo[c])
           r == cancel_pending_transaction(db, t)
           returns == r.res # Ok \/ Len(todo[c]) = 1
       IN /\ Bounded(r.db)
          /\ db' = r.db
          /\ pc' = [pc EXCEPT ![c] = IF returns THEN Idle ELSE @]
          /\ todo' = [todo EXCEPT ![c] = IF returns THEN <<>> ELSE Tail(@)]
          /\ last' = Did(pc[c], "cancel_pending_transaction", <<>>, t, r.res, returns)
    /\ UNCHANGED <<now, open, lwma_diff, lock>>

CancelNext(c) ==
    /\ CancelTurn(c)
    /\ UNCHANGED <<call, start>>

\* The wall clock advances.
Tick ==
    /\ now < MaxTime
    /\ now' = now + 1
    /\ last' = Did("", "tick", <<>>, 0, Ok, TRUE)
    /\ UNCHANGED <<db, pc, todo, call, start, open, lwma_diff, lock>>

\* The state after OutputManagerMemoryDatabase::new(), shared by the clients cs.
Constructed(cs) ==
    /\ db = InnerDatabase_new
    /\ now = 0
    /\ pc = [c \in cs |-> Idle]
    /\ todo = [c \in cs |-> <<>>]
    /\ last = Did("new", "new", <<>>, 0, Ok, TRUE)
    /\ call = [c \in cs |-> NoCall]
    /\ start = InnerDatabase_new
    /\ open = NoTrip
    /\ lock = NoneVal
    /\ lwma_diff = NoneVal

\* Spec: one client calls the operations of the store one after the other, at
\* one instant of the clock.
Init == Constructed({1})

\* Every public operation of the store, and the loop turns of the bulk ones.
Next ==
    \/ \E c \in DOMAIN pc : WriteOutput(c)
    \/ \E c \in DOMAIN pc : WritePending(c)
    \/ \E c \in DOMAIN pc : WriteKeyManager(c)
    \/ \E c \in DOMAIN pc : WriteRemove(c)
    \/ \E c \in DOMAIN pc : ConfirmTransaction(c)
    \/ \E c \in DOMAIN pc : ShortTermEncumberOutputs(c)
    \/ \E c \in DOMAIN pc : ConfirmEncumberedOutputs(c)
    \/ \E c \in DOMAIN pc : ClearShortTermEncumberances(c)
    \/ \E c \in DOMAIN pc : CancelPendingTransaction(c)
    \/ \E c \in DOMAIN pc : TimeoutPendingTransactions(c)
    \/ \E c \in DOMAIN pc : InvalidateUnspentOutput(c)
    \/ \E c \in DOMAIN pc : IncrementKeyIndex(c)
    \/ \E c \in DOMAIN pc : CancelNext(c)

Spec == Init /\ [][Next]_vars

\* SpecConc: MaxClient clients share a store of at most MaxConcOutputs outputs
\* while the clock runs.
InitConc == Constructed(Clients)

ConcBounded == TotalOutputs(db') <= MaxConcOutputs

NextConc ==
    \/ \E c \in DOMAIN pc : WriteOutput(c) /\ ConcBounded
    \/ \E c \in DOMAIN pc : ConfirmTransaction(c) /\ ConcBounded
    \/ \E c \in DOMAIN pc : ShortTermEncumberOutputs(c) /\ ConcBounded
    \/ \E c \in DOMAIN pc : ConfirmEncumberedOutputs(c) /\ ConcBounded
    \/ \E c \in DOMAIN pc : ClearShortTermEncumberances(c) /\ ConcBounded
    \/ \E c \in DOMAIN pc : CancelPendingTransaction(c) /\ ConcBounded
    \/ \E c \in DOMAIN pc : TimeoutPendingTransactions(c) /\ ConcBounded
    \/ \E c \in DOMAIN pc : CancelNext(c) /\ ConcBounded
    \/ Tick

SpecConc == InitConc /\ [][NextConc]_vars

\* ------------------------------------------------------------------ what the claims speak of
\* The bundles the store holds, each with the map that holds it.
HeldBundles(d) ==
    {<<"pending", t>> : t \in DOMAIN d.pending_transactions}
    \cup {<<"short_term", t>> : t \in DOMAIN d.short_term_pending_transactions}

BundleAt(d, h) ==
    IF h[1] = "pending" THEN d.pending_transactions[h[2]]
    ELSE d.short_term_pending_transactions[h[2]]

\* The places of the store that hold spending key k: the three lists, and every
\* bundle that has k among its outputs.
PlacesOf(d, k) ==
    {<<l, 0>> : l \in {x \in {"unspent"} : any(d.unspent_outputs, k)}}
    \cup {<<l, 0>> : l \in {x \in {"spent"} : any(d.spent_outputs, k)}}
    \cup {<<l, 0>> : l \in {x \in {"invalid"} : any(d.invalid_outputs, k)}}
    \cup {h \in HeldBundles(d) :
             any(BundleAt(d, h).outputs_to_be_spent, k)
             \/ any(BundleAt(d, h).outputs_to_be_received, k)}

\* C1 (O1): after any sequence of public store operations from the empty store,
\* every spending key is in at most one of unspent, spent, invalid, or the
\* outputs of one bundle of pending or short_term_pending.
C1_O1_OnePlacePerKey ==
    \A k \in Keys : Cardinality(PlacesOf(db, k)) <= 1

\* C2 (O3): no spending key in outputs_to_be_spent of a bundle held in pending or
\* short_term_pending is also in unspent.
C2_O3_EncumberedNotUnspent ==
    \A h \in HeldBundles(db) : \A k \in Range(BundleAt(db, h).outputs_to_be_spent) :
        ~any(db.unspent_outputs, k)

\* C3 (O2): no tx_id is a key of both pending and short_term_pending.
C3_O2_DisjointPendingMaps ==
    DOMAIN db.pending_transactions \cap DOMAIN db.short_term_pending_transactions = {}

\* C4: short_term_encumber_outputs is all-or-nothing: when an output of
\* outputs_to_send is not in unspent, the call returns ValuesNotFound and the
\* store is exactly as before the call.
C4_EncumberAllOrNothing ==
    [][\A c \in DOMAIN pc, t \in TxIds, outs \in SendLists, co \in ChangeOutputs :
          (/\ ShortTermEncumberOutputsCall(c, t, outs, co)
           /\ \E i \in 1..Len(outs) : ~any(db.unspent_outputs, outs[i]))
          => (last'.res = ValuesNotFound /\ db' = db)]_vars

\* C8: after a successful confirm_transaction(tx_id) every output that was in
\* the removed bundle's outputs_to_be_spent is in spent, every output that was
\* in its outputs_to_be_received is in unspent, and tx_id is a key of neither
\* pending nor short_term_pending.
C8_ConfirmAbsorbs ==
    [][\A t \in TxIds :
          (last'.op = "confirm_transaction" /\ last'.id = t /\ last'.res = Ok)
          => LET b == Unwrap(take_pending_tx(db, t).tx) IN
             /\ \A k \in Range(b.outputs_to_be_spent) : any(db'.spent_outputs, k)
             /\ \A k \in Range(b.outputs_to_be_received) : any(db'.unspent_outputs, k)
             /\ t \notin DOMAIN db'.pending_transactions
             /\ t \notin DOMAIN db'.short_term_pending_transactions]_vars

\* C9: cancel_pending_transaction(tx_id), called directly or by a bulk operation,
\* removes the bundle from pending or, only if it is absent there, from
\* short_term_pending; appends its outputs_to_be_spent to unspent and nothing
\* else; leaves spent, invalid, key_manager_state and every other bundle as they
\* were; and returns ValueNotFound exactly when neither map has tx_id.
C9_CancelFrame ==
    [][\A t \in TxIds :
          (last'.op = "cancel_pending_transaction" /\ last'.id = t)
          => LET P == db.pending_transactions
                 S == db.short_term_pending_transactions
             IN IF t \in DOMAIN P \cup DOMAIN S
                THEN LET b == IF t \in DOMAIN P THEN P[t] ELSE S[t] IN
                     /\ last'.res = Ok
                     /\ db'.pending_transactions =
                            (IF t \in DOMAIN P THEN MapRemove(P, t) ELSE P)
                     /\ db'.short_term_pending_transactions =
                            (IF t \in DOMAIN P THEN S ELSE MapRemove(S, t))
                     /\ db'.unspent_outputs = db.unspent_outputs \o b.outputs_to_be_spent
                     /\ db'.spent_outputs = db.spent_outputs
                     /\ db'.invalid_outputs = db.invalid_outputs
                     /\ db'.key_manager_state = db.key_manager_state
                ELSE last'.res = ValueNotFound]_vars

\* A cancel has returned Ok: it took the bundle of pending and left the bundle
\* short_term_pending holds under the same tx_id, and unspent holds an output.
C9_CancelledPendingFirst ==
    /\ last.op = "cancel_pending_transaction"
    /\ last.res = Ok
    /\ last.id \in DOMAIN db.short_term_pending_transactions
    /\ db.unspent_outputs # <<>>

\* C10: confirm_encumbered_outputs(tx_id) moves the bundle stored under tx_id from
\* short_term_pending to pending, its outputs and timestamp as they were, and
\* leaves unspent, spent and invalid alone; when tx_id is not a key of
\* short_term_pending (a key of pending or not) it returns ValueNotFound and
\* the store is unchanged.
C10_ConfirmEncumberedMoves ==
    [][\A t \in TxIds :
          (last'.op = "confirm_encumbered_outputs" /\ last'.id = t)
          => IF t \in DOMAIN db.short_term_pending_transactions
             THEN /\ last'.res = Ok
                  /\ t \notin DOMAIN db'.short_term_pending_transactions
                  /\ t \in DOMAIN db'.pending_transactions
                  /\ db'.pending_transactions[t] = db.short_term_pending_transactions[t]
                  /\ db'.unspent_outputs = db.unspent_outputs
                  /\ db'.spent_outputs = db.spent_outputs
                  /\ db'.invalid_outputs = db.invalid_outputs
             ELSE last'.res = ValueNotFound /\ db' = db]_vars

\* A confirm_encumbered_outputs has returned Ok for a bundle that holds an output
\* and was stamped before the present instant.
C10_MovedAnOlderBundle ==
    /\ last.op = "confirm_encumbered_outputs"
    /\ last.res = Ok
    /\ last.id \in DOMAIN db.pending_transactions
    /\ db.pending_transactions[last.id].outputs_to_be_spent # <<>>
    /\ db.pending_transactions[last.id].timestamp < now

\* C6: while a client is inside timeout_pending_transactions, between the
\* collection of the expired tx_ids and its last cancellation, no step of
\* another client changes the store.
C6_TimeoutNotInterleaved ==
    [][\A c \in DOMAIN pc :
          (/\ pc[c] = "timeout_pending_transactions"
           /\ pc'[c] = pc[c]
           /\ todo'[c] = todo[c])
          => db' = db]_vars

\* ------------------------------------------------------------------ two encumbrances race
\* The unspent lists a store reaches by inserting distinct outputs.
InsertedLists == {u \in SeqUpTo(Keys, MaxOutputs) : \A k \in Keys : Count(u, k) <= 1}

EncumberArgs ==
    [tx_id : TxIds, outputs_to_send : SendLists, change_output : ChangeOutputs]

EncumberCall(a) == [op |-> "short_term_encumber_outputs", arg |-> a, res |-> ""]

Racers == {1, 2}

\* The spending keys both racing calls ask for and the store had unspent when
\* they were issued.
SharedKeys ==
    Range(call[1].arg.outputs_to_send) \cap Range(call[2].arg.outputs_to_send)
        \cap Range(start.unspent_outputs)

\* SpecRace: two clients have each issued short_term_encumber_outputs, with
\* different tx_ids and lists that share a key the store has in unspent, and
\* wait for the write lock; the lock is granted in either order.
InitRace ==
    /\ \E u \in InsertedLists : db = [InnerDatabase_new EXCEPT !.unspent_outputs = u]
    /\ now = 0
    /\ pc = [c \in Racers |-> Idle]
    /\ todo = [c \in Racers |-> <<>>]
    /\ last = Did("new", "new", <<>>, 0, Ok, TRUE)
    /\ \E a1 \in EncumberArgs, a2 \in EncumberArgs :
         /\ a1.tx_id # a2.tx_id
         /\ call = [c \in Racers |-> EncumberCall(IF c = 1 THEN a1 ELSE a2)]
    /\ start = db
    /\ SharedKeys # {}
    /\ open = NoTrip
    /\ lock = NoneVal
    /\ lwma_diff = NoneVal

RaceEncumber(c) ==
    /\ call[c].res = ""
    /\ lock = NoneVal
    /\ LET a == call[c].arg
           r == short_term_encumber_outputs(db, a.tx_id, a.outputs_to_send,
                                             a.change_output, now)
       IN /\ db' = r.db
          /\ call' = [call EXCEPT ![c].res = r.res]
          /\ last' = Did("short_term_encumber_outputs", "short_term_encumber_outputs",
                         <<>>, a.tx_id, r.res, TRUE)
    /\ UNCHANGED <<now, pc, todo, start, open, lwma_diff, lock>>

NextRace == \E c \in Racers : RaceEncumber(c)

SpecRace == InitRace /\ [][NextRace]_vars

\* The call of client c, run alone on the store as it was, finds all its outputs.
WhollyUnspent(c) ==
    \A k \in Keys :
        Count(call[c].arg.outputs_to_send, k) <= Count(start.unspent_outputs, k)

\* C5: of two concurrent short_term_encumber_outputs calls with different tx_ids
\* whose lists share a key that is in unspent, in every order exactly one returns
\* Ok and the other ValuesNotFound, and the shared key ends up in
\* outputs_to_be_spent of exactly one bundle.  Stated for the races in which one
\* of the calls at least would find all its outputs if it ran alone.
C5_ExactlyOneEncumberWins ==
    (/\ \A c \in Racers : call[c].res # ""
     /\ \E c \in Racers : WhollyUnspent(c))
    => /\ {call[1].res, call[2].res} = {Ok, ValuesNotFound}
       /\ \A k \in SharedKeys :
            Cardinality({h \in HeldBundles(db) :
                            any(BundleAt(db, h).outputs_to_be_spent, k)}) = 1

\* ------------------------------------------------------------------ encumber, then cancel
\* SpecTrip: from a store that holds inserted unspent outputs, one client makes
\* successful short_term_encumber_outputs calls and cancels tx_ids it has
\* encumbered, and nothing else is written.
InitTrip ==
    /\ \E u \in InsertedLists : db = [InnerDatabase_new EXCEPT !.unspent_outputs = u]
    /\ now = 0
    /\ pc = [c \in {1} |-> Idle]
    /\ todo = [c \in {1} |-> <<>>]
    /\ last = Did("new", "new", <<>>, 0, Ok, TRUE)
    /\ call = [c \in {1} |-> NoCall]
    /\ start = db
    /\ open = NoTrip
    /\ lock = NoneVal
    /\ lwma_diff = NoneVal

TripEncumber(c) ==
    \E t \in TxIds, outs \in SendLists, co \in ChangeOutputs :
        /\ short_term_encumber_outputs(db, t, outs, co, now).res = Ok
        /\ Locked(c, "short_term_encumber_outputs", <<>>, t,
                  short_term_encumber_outputs(db, t, outs, co, now))
        /\ open' = [txs |-> open.txs \cup {t}, changes |-> open.changes \cup Range(co)]

TripCancel(c) ==
    \E t \in open.txs :
        /\ Locked(c, "cancel_pending_transaction", <<>>, t,
                  cancel_pending_transaction(db, t))
        /\ open' = [open EXCEPT !.txs = @ \ {t}]

NextTrip ==
    \/ \E c \in DOMAIN pc : TripEncumber(c)
    \/ \E c \in DOMAIN pc : TripCancel(c)

SpecTrip == InitTrip /\ [][NextTrip]_vars

\* C7: once every successful short_term_encumber_outputs has been followed by
\* cancel_pending_transaction of its tx_id, with no other write, unspent holds
\* the keys it held before the first encumber, each as often, and the change
\* outputs are in no set.
C7_CancelRoundTrip ==
    open.txs = {}
    => /\ \A k \in Keys : Count(db.unspent_outputs, k) = Count(start.unspent_outputs, k)
       /\ \A k \in open.changes \ Range(start.unspent_outputs) :
            /\ ~any(db.unspent_outputs, k)
            /\ ~any(db.spent_outputs, k)
            /\ ~any(db.invalid_outputs, k)

\* ------------------------------------------------------------------ a bulk call, watched
\* A bulk call a client has issued: `res` is "" until it has returned.
BulkCall(op, period) == [op |-> op, arg |-> period, res |-> ""]

\* Client c is not inside a watched bulk call, nor between the two timeouts of a
\* watched pair.
Quiet(c) == call[c].op = ""

\* clear_short_term_encumberances, the store at the call kept in `start` until the
\* call returns.
WatchedClear(c) ==
    /\ Quiet(c)
    /\ ClearSnapshot(c)
    /\ IF last'.returned
       THEN UNCHANGED <<call, start>>
       ELSE /\ call' = [call EXCEPT
                           ![c] = BulkCall("clear_short_term_encumberances", NoneVal)]
            /\ start' = db

\* timeout_pending_transactions(period), to be called again with the same period at
\* the same instant: `start` keeps the store the first call leaves.
TimeoutFirst(c) ==
    /\ Quiet(c)
    /\ \E period \in Periods :
         /\ TimeoutCollect(c, period)
         /\ call' = [call EXCEPT
                        ![c] = [BulkCall("timeout_pending_transactions", period)
                                   EXCEPT !.res = IF last'.returned THEN last'.res ELSE ""]]
    /\ start' = db

\* The loop turns of a watched bulk call.
WatchedCancelNext(c) ==
    /\ ~Quiet(c)
    /\ CancelTurn(c)
    /\ IF ~last'.returned
       THEN UNCHANGED <<call, start>>
       ELSE IF call[c].op = "timeout_pending_transactions" /\ call[c].res = ""
       THEN /\ call' = [call EXCEPT ![c].res = last'.res]
            /\ start' = db'
       ELSE /\ call' = [call EXCEPT ![c] = NoCall]
            /\ start' = InnerDatabase_new

\* The second timeout_pending_transactions(period) of the pair.
TimeoutAgain(c) ==
    /\ call[c].op = "timeout_pending_transactions"
    /\ call[c].res # ""
    /\ TimeoutCollect(c, call[c].arg)
    /\ IF last'.returned
       THEN /\ call' = [call EXCEPT ![c] = NoCall]
            /\ start' = InnerDatabase_new
       ELSE UNCHANGED <<call, start>>

\* SpecBulk: one client works on the store while the clock runs; its
\* clear_short_term_encumberances calls, and timeout_pending_transactions calls
\* made twice in a row at one instant, are watched from call to return.
InitBulk == Constructed({1})

NextBulk ==
    \/ \E c \in DOMAIN pc : Quiet(c) /\ WriteOutput(c)
    \/ \E c \in DOMAIN pc : Quiet(c) /\ WritePending(c)
    \/ \E c \in DOMAIN pc : Quiet(c) /\ ConfirmTransaction(c)
    \/ \E c \in DOMAIN pc : Quiet(c) /\ ShortTermEncumberOutputs(c)
    \/ \E c \in DOMAIN pc : Quiet(c) /\ ConfirmEncumberedOutputs(c)
    \/ \E c \in DOMAIN pc : Quiet(c) /\ CancelPendingTransaction(c)
    \/ \E c \in DOMAIN pc : Quiet(c) /\ InvalidateUnspentOutput(c)
    \/ \E c \in DOMAIN pc : WatchedClear(c)
    \/ \E c \in DOMAIN pc : TimeoutFirst(c)
    \/ \E c \in DOMAIN pc : TimeoutAgain(c)
    \/ \E c \in DOMAIN pc : WatchedCancelNext(c)
    \/ (\A c \in DOMAIN pc : Quiet(c)) /\ Tick

SpecBulk == InitBulk /\ [][NextBulk]_vars

\* The store as it was when the bulk call client c is in, or is about to make,
\* was issued.
AtCall(c) == IF Quiet(c) THEN db ELSE start

\* The outputs_to_be_spent of the bundles of map m that are output k.
RECURSIVE EncumberedIn(_, _)
EncumberedIn(m, k) ==
    IF DOMAIN m = {} THEN 0
    ELSE LET t == CHOOSE x \in DOMAIN m : TRUE IN
         Count(m[t].outputs_to_be_spent, k) + EncumberedIn(MapRemove(m, t), k)

\* C11: when clear_short_term_encumberances returns Ok, no other client writing,
\* short_term_pending is empty, every output that was in outputs_to_be_spent of
\* a short-term bundle at the call is in unspent, and nothing else was added to
\* a set: unspent has gained those outputs and no others, spent and invalid are
\* as they were.
C11_ClearEmptiesShortTerm ==
    [][\A c \in DOMAIN pc :
          (/\ WatchedClear(c) \/ (call[c].op = "clear_short_term_encumberances"
                                    /\ WatchedCancelNext(c))
           /\ last'.returned
           /\ last'.res = Ok)
          => LET s == AtCall(c) IN
             /\ db'.short_term_pending_transactions = EmptyMap
             /\ \A k \in Keys :
                  Count(db'.unspent_outputs, k) =
                      Count(s.unspent_outputs, k)
                          + EncumberedIn(s.short_term_pending_transactions, k)
             /\ db'.spent_outputs = s.spent_outputs
             /\ db'.invalid_outputs = s.invalid_outputs]_vars

\* C12 (timeout idempotence): when timeout_pending_transactions(period) is called
\* twice in a row at one instant with the same period and nothing in between,
\* the second call leaves the store exactly as the first call left it.
C12_TimeoutIdempotent ==
    [][\A c \in DOMAIN pc :
          (/\ call[c].op = "timeout_pending_transactions"
           /\ call[c].res # ""
           /\ TimeoutAgain(c) \/ WatchedCancelNext(c)
           /\ last'.returned)
          => db' = start]_vars

\* ------------------------------------------------------------------ concurrent increments
\* A client that makes no increment_key_index call.
Bystander == MaxClient + 1

\* The clients that have issued increment_key_index.
Incrementers == {c \in DOMAIN call : call[c].op = "increment_key_index"}

\* SpecKeys: on a store whose key manager state is initialised, some of the
\* clients have each issued one increment_key_index and wait for the write lock,
\* while the other clients fetch, write and invalidate outputs.
InitKeys ==
    /\ \E k \in 0..MaxIndex :
         db = [InnerDatabase_new EXCEPT !.key_manager_state = Some(KeyManagerState(k))]
    /\ now = 0
    /\ pc = [c \in Clients \cup {Bystander} |-> Idle]
    /\ todo = [c \in Clients \cup {Bystander} |-> <<>>]
    /\ last = Did("new", "new", <<>>, 0, Ok, TRUE)
    /\ \E I \in SUBSET Clients \ {{}} :
         call = [c \in Clients \cup {Bystander} |->
                    IF c \in I THEN [op |-> "increment_key_index", arg |-> <<>>, res |-> ""]
                    ELSE NoCall]
    /\ start = db
    /\ open = NoTrip
    /\ lock = NoneVal
    /\ lwma_diff = NoneVal

KeysIncrement(c) ==
    /\ call[c].op = "increment_key_index"
    /\ call[c].res = ""
    /\ lock = NoneVal
    /\ LET r == increment_key_index(db) IN
         /\ db' = r.db
         /\ call' = [call EXCEPT ![c].res = r.res]
         /\ last' = Did("increment_key_index", "increment_key_index", <<>>, 0, r.res, TRUE)
    /\ UNCHANGED <<now, pc, todo, start, open, lwma_diff, lock>>

\* write(Insert(KeyManagerState(km))) by a client that has no call waiting; the
\* call is kept on record.
KeysInsertState(c) ==
    /\ Quiet(c)
    /\ lock = NoneVal
    /\ \E op \in KeyManagerWrites :
         LET r == write(db, op) IN
         /\ db' = r.db
         /\ call' = [call EXCEPT ![c] = [op |-> "write", arg |-> <<>>, res |-> r.res]]
         /\ last' = Did("write", "write", WriteKey(op), op.k, r.res, TRUE)
    /\ UNCHANGED <<now, pc, todo, start, open, lwma_diff, lock>>

NextKeys ==
    \/ \E c \in DOMAIN pc : KeysIncrement(c)
    \/ \E c \in DOMAIN pc : KeysInsertState(c)
    \/ \E c \in DOMAIN pc : Quiet(c) /\ Fetch(c)
    \/ \E c \in DOMAIN pc : Quiet(c) /\ WriteOutput(c)
    \/ \E c \in DOMAIN pc : Quiet(c) /\ InvalidateUnspentOutput(c)

SpecKeys == InitKeys /\ [][NextKeys]_vars

\* The last of the increment_key_index calls has just returned.
AllIncrementsReturned ==
    /\ \A c \in Incrementers : call[c].res # ""
    /\ last.op = "increment_key_index"

KeyStateInserted == \E c \in DOMAIN call : call[c].op = "write"

\* C13, as stated: when the last of N concurrent increment_key_index calls returns,
\* whatever fetches and other store operations ran between them,
\* primary_key_index is k + N.
C13_IndexIsKPlusN ==
    AllIncrementsReturned
    => /\ IsSome(db.key_manager_state)
       /\ Unwrap(db.key_manager_state).primary_key_index =
              Unwrap(start.key_manager_state).primary_key_index + Cardinality(Incrementers)

\* C13, amended: the same, the other store operations being any but
\* write(Insert(KeyManagerState(..))); and every one of the N calls returns Ok.
C13_NoIncrementLost ==
    (AllIncrementsReturned /\ ~KeyStateInserted)
    => /\ \A c \in Incrementers : call[c].res = Ok
       /\ IsSome(db.key_manager_state)
       /\ Unwrap(db.key_manager_state).primary_key_index =
              Unwrap(start.key_manager_state).primary_key_index + Cardinality(Incrementers)

\* All MaxClient clients have incremented, the last of them after another client
\* had inserted and invalidated outputs, and no key manager state was inserted.
C13_IncrementedAmongWrites ==
    /\ Cardinality(Incrementers) = MaxClient
    /\ AllIncrementsReturned
    /\ ~KeyStateInserted
    /\ db.invalid_outputs # <<>>
    /\ db.unspent_outputs # <<>>

\* ------------------------------------------------------------------ single operations
\* C14: write(Insert(UnspentOutput(sk, o))) and write(Insert(SpentOutput(sk, o)))
\* return DuplicateOutput, the store unchanged, when sk is in unspent or in spent;
\* otherwise they return Ok and append o to the named list, the rest of the store
\* unchanged.
C14_InsertOutputOrDuplicate ==
    [][\A k \in Keys :
          (/\ last'.op = "write"
           /\ last'.key \in {<<"Insert", "UnspentOutput">>, <<"Insert", "SpentOutput">>}
           /\ last'.id = k)
          => IF any(db.unspent_outputs, k) \/ any(db.spent_outputs, k)
             THEN last'.res = DuplicateOutput /\ db' = db
             ELSE /\ last'.res = Ok
                  /\ db' = IF last'.key[2] = "UnspentOutput"
                           THEN [db EXCEPT !.unspent_outputs = Append(@, k)]
                           ELSE [db EXCEPT !.spent_outputs = Append(@, k)]]_vars

\* An insert into spent has been refused because the key is in unspent, not in
\* spent.
C14_RefusedAcrossSets ==
    /\ last.op = "write"
    /\ last.key = <<"Insert", "SpentOutput">>
    /\ last.res = DuplicateOutput
    /\ any(db.unspent_outputs, last.id)
    /\ ~any(db.spent_outputs, last.id)

\* The operations C15 names: every locked section but those of
\* short_term_encumber_outputs and of the two bulk operations' snapshots.
FailSafeOps ==
    {"write", "confirm_transaction", "confirm_encumbered_outputs",
     "cancel_pending_transaction", "invalidate_unspent_output", "increment_key_index"}

\* C15: when write, confirm_transaction, confirm_encumbered_outputs,
\* cancel_pending_transaction, invalidate_unspent_output or increment_key_index
\* returns an error, the six parts of the store are as they were before the
\* call; and a write(Remove) with a bulk key returns OperationNotSupported.
C15_ErrorLeavesStore ==
    [][/\ (last'.op \in FailSafeOps /\ last'.res # Ok) => db' = db
       /\ (/\ last'.op = "write"
           /\ \E b \in BulkKeys : last'.key = <<"Remove", b>>)
          => last'.res = OperationNotSupported]_vars

\* A write(Remove) with a bulk key has been refused on a store that holds
\* outputs and a bundle.
C15_BulkRemoveRefused ==
    /\ last.op = "write"
    /\ last.res = OperationNotSupported
    /\ db.unspent_outputs # <<>>
    /\ db.pending_transactions # EmptyMap

\* C16: invalidate_unspent_output(output) takes the output with the matching
\* spending key out of unspent and appends it to invalid, the rest of the store
\* unchanged; when unspent has no output with that key, wherever else the key
\* may be, it returns ValuesNotFound and the store is unchanged.
C16_InvalidateMoves ==
    [][\A k \in Keys :
          (last'.op = "invalidate_unspent_output" /\ last'.id = k)
          => IF any(db.unspent_outputs, k)
             THEN /\ last'.res = Ok
                  /\ Len(db'.unspent_outputs) = Len(db.unspent_outputs) - 1
                  /\ \A j \in Keys :
                       Count(db'.unspent_outputs, j) =
                           Count(db.unspent_outputs, j) - (IF j = k THEN 1 ELSE 0)
                  /\ db'.invalid_outputs = Append(db.invalid_outputs, k)
                  /\ db'.spent_outputs = db.spent_outputs
                  /\ db'.pending_transactions = db.pending_transactions
                  /\ db'.short_term_pending_transactions =
                         db.short_term_pending_transactions
                  /\ db'.key_manager_state = db.key_manager_state
             ELSE last'.res = ValuesNotFound /\ db' = db]_vars

\* An output has been invalidated while another output stays unspent.
C16_InvalidatedOneOfTwo ==
    /\ last.op = "invalidate_unspent_output"
    /\ last.res = Ok
    /\ any(db.invalid_outputs, last.id)
    /\ db.unspent_outputs # <<>>

\* ------------------------------------------------------------------ the lifecycle alone
\* SpecLife: from a store that holds inserted unspent outputs, one client calls
\* the lifecycle operations only (no write), at one instant of the clock (so that
\* timeout_pending_transactions finds no bundle old enough to cancel).
InitLife ==
    /\ \E u \in InsertedLists : db = [InnerDatabase_new EXCEPT !.unspent_outputs = u]
    /\ now = 0
    /\ pc = [c \in {1} |-> Idle]
    /\ todo = [c \in {1} |-> <<>>]
    /\ last = Did("new", "new", <<>>, 0, Ok, TRUE)
    /\ call = [c \in {1} |-> NoCall]
    /\ start = db
    /\ open = NoTrip
    /\ lock = NoneVal
    /\ lwma_diff = NoneVal

NextLife ==
    \/ \E c \in DOMAIN pc : ShortTermEncumberOutputs(c)
    \/ \E c \in DOMAIN pc : ConfirmEncumberedOutputs(c)
    \/ \E c \in DOMAIN pc : ConfirmTransaction(c)
    \/ \E c \in DOMAIN pc : CancelPendingTransaction(c)
    \/ \E c \in DOMAIN pc : ClearShortTermEncumberances(c)
    \/ \E c \in DOMAIN pc : TimeoutPendingTransactions(c)
    \/ \E c \in DOMAIN pc : InvalidateUnspentOutput(c)
    \/ \E c \in DOMAIN pc : CancelNext(c)

SpecLife == InitLife /\ [][NextLife]_vars

\* Where, spent apart, the store holds spending key k: in unspent, in invalid, in
\* a bundle.
OtherPlaces(d, k) ==
    {x \in {"unspent"} : any(d.unspent_outputs, k)}
    \cup {x \in {"invalid"} : any(d.invalid_outputs, k)}
    \cup {x \in {"bundle"} :
             \E h \in HeldBundles(d) :
                 \/ any(BundleAt(d, h).outputs_to_be_spent, k)
                 \/ any(BundleAt(d, h).outputs_to_be_received, k)}

\* C17 (SPENT is terminal): a spending key that confirm_transaction has put into
\* spent stays in spent, and no short_term_encumber_outputs,
\* confirm_encumbered_outputs, confirm_transaction, cancel_pending_transaction,
\* clear_short_term_encumberances, timeout_pending_transactions or
\* invalidate_unspent_output makes it appear in unspent, in invalid or in a
\* bundle.
C17_SpentIsTerminal ==
    [][\A k \in Keys :
          any(db.spent_outputs, k)
          => /\ any(db'.spent_outputs, k)
             /\ OtherPlaces(db', k) \subseteq OtherPlaces(db, k)]_vars

\* ------------------------------------------------------------------ a period out of range
\* C18, as stated: in every store state timeout_pending_transactions with a
\* period that chrono cannot represent returns DurationOutOfRange and leaves the
\* store unchanged.
C18_OutOfRangeIsAnError ==
    [][\A c \in DOMAIN pc :
          TimeoutCollect(c, NoneVal)
          => (last'.res = DurationOutOfRange /\ db' = db)]_vars

\* C18, amended: with such a period timeout_pending_transactions returns at
\* once and leaves the store unchanged; it returns DurationOutOfRange when the
\* store holds a bundle, in pending or in short_term_pending, and Ok when it
\* holds none.
C18_OutOfRangeWithBundles ==
    [][\A c \in DOMAIN pc :
          TimeoutCollect(c, NoneVal)
          => /\ db' = db
             /\ last'.returned
             /\ pc'[c] = Idle
             /\ last'.res = (IF TotalBundles(db) > 0 THEN DurationOutOfRange ELSE Ok)]_vars

\* timeout_pending_transactions has returned DurationOutOfRange on a store that
\* holds a short-term bundle with an encumbered output.
C18_RefusedWithBundle ==
    /\ last.op = "timeout_pending_transactions"
    /\ last.res = DurationOutOfRange
    /\ \E t \in DOMAIN db.short_term_pending_transactions :
         db.short_term_pending_transactions[t].outputs_to_be_spent # <<>>

\* ------------------------------------------------------------------ the change output
InNoSet(d, k) ==
    /\ ~any(d.unspent_outputs, k)
    /\ ~any(d.spent_outputs, k)
    /\ ~any(d.invalid_outputs, k)

\* C19: while a bundle that short_term_encumber_outputs created with a change
\* output is held in short_term_pending or pending, the change output's key is
\* in none of unspent, spent, invalid; it enters unspent only through
\* confirm_transaction of that tx_id; and after the bundle has been cancelled
\* (cancel_pending_transaction, directly or from clear_short_term_encumberances
\* or timeout_pending_transactions) it is in no set.
C19_ChangeOutputWaits ==
    [][/\ \A h \in HeldBundles(db') :
            \A k \in Range(BundleAt(db', h).outputs_to_be_received) : InNoSet(db', k)
       /\ \A h \in HeldBundles(db) :
            \A k \in Range(BundleAt(db, h).outputs_to_be_received) :
                (~any(db.unspent_outputs, k) /\ any(db'.unspent_outputs, k))
                => (last'.op = "confirm_transaction" /\ last'.id = h[2])
       /\ \A t \in TxIds :
            (last'.op = "cancel_pending_transaction" /\ last'.id = t /\ last'.res = Ok)
            => \A k \in Range(Unwrap(take_pending_tx(db, t).tx).outputs_to_be_received) :
                   InNoSet(db', k)]_vars

\* ------------------------------------------------------------------ the difficulty window
\* Bounds of the difficulty scenarios: block_window, timestamps, accumulated
\* difficulties.
MaxWindow == 2
MaxStamp == 2
MaxDifficulty == 4

\* The arguments of TimeStampAdjustment::new in tsa_add_non_increasing_diff.
TestTargetTime == 120
TestInitialDifficulty == 1

StrictlyIncreasing == "StrictlyIncreasing"

BlockWindows == 0..MaxWindow
EpochTimes == 0..MaxStamp
Difficulties == 1..MaxDifficulty

\* TimeStampAdjustment::new: an empty window of the given size.
TimeStampAdjustment_new(block_window, target_time, initial_difficulty) ==
    [timestamps |-> <<>>,
     accumulated_difficulties |-> <<>>,
     block_window |-> block_window,
     target_time |-> target_time,
     initial_difficulty |-> initial_difficulty]

\* LinearWeightedMovingAverage::add: refuse an accumulated difficulty that is
\* not above the last stored one, leaving the window alone; otherwise append
\* the observation and evict the oldest one beyond block_window + 1 entries.
LinearWeightedMovingAverage_add(w, timestamp, accumulated_difficulty) ==
    LET n == Len(w.accumulated_difficulties)
    IN  IF n > 0 /\ accumulated_difficulty <= w.accumulated_difficulties[n]
        THEN [lwma_diff |-> w, res |-> StrictlyIncreasing]
        ELSE LET ts == Append(w.timestamps, timestamp)
                 ds == Append(w.accumulated_difficulties, accumulated_difficulty)
                 over == Len(ts) > w.block_window + 1
             IN  [lwma_diff |-> [w EXCEPT !.timestamps = IF over THEN Tail(ts) ELSE ts,
                                          !.accumulated_difficulties =
                                              IF over THEN Tail(ds) ELSE ds],
                  res |-> Ok]

\* An add that pushes the observation into the window itself and returns Ok.
TimeStampAdjustment_add_unchecked(w, timestamp, accumulated_difficulty) ==
    LET ts == Append(w.timestamps, timestamp)
        ds == Append(w.accumulated_difficulties, accumulated_difficulty)
        over == Len(ts) > w.block_window + 1
    IN  [lwma_diff |-> [w EXCEPT !.timestamps = IF over THEN Tail(ts) ELSE ts,
                                 !.accumulated_difficulties = IF over THEN Tail(ds) ELSE ds],
         res |-> Ok]

\* An add that checks the accumulated difficulty and never evicts.
TimeStampAdjustment_add_unbounded(w, timestamp, accumulated_difficulty) ==
    LET n == Len(w.accumulated_difficulties)
    IN  IF n > 0 /\ accumulated_difficulty <= w.accumulated_difficulties[n]
        THEN [lwma_diff |-> w, res |-> StrictlyIncreasing]
        ELSE [lwma_diff |-> [w EXCEPT !.timestamps = Append(@, timestamp),
                                      !.accumulated_difficulties =
                                          Append(@, accumulated_difficulty)],
              res |-> Ok]

\* TimeStampAdjustment::add: hand the observation to the window and return its
\* result.
TimeStampAdjustment_add(w, timestamp, accumulated_difficulty) ==
    LinearWeightedMovingAverage_add(w, timestamp, accumulated_difficulty)

\* One call of add on the engine.
Add(timestamp, accumulated_difficulty) ==
    LET r == TimeStampAdjustment_add(lwma_diff, timestamp, accumulated_difficulty)
    IN  /\ lwma_diff' = r.lwma_diff
        /\ last' = Did("add", "add", <<>>, accumulated_difficulty, r.res, TRUE)
        /\ UNCHANGED <<db, now, pc, todo, call, start, open, lock>>

TsaAdd == \E timestamp \in EpochTimes, accumulated_difficulty \in Difficulties :
              Add(timestamp, accumulated_difficulty)

\* A freshly constructed engine; the wallet store is idle and never touched.
InitTsa ==
    /\ db = InnerDatabase_new
    /\ now = 0
    /\ pc = [c \in {1} |-> Idle]
    /\ todo = [c \in {1} |-> <<>>]
    /\ last = Did("new", "new", <<>>, 0, Ok, TRUE)
    /\ call = [c \in {1} |-> NoCall]
    /\ start = InnerDatabase_new
    /\ open = NoTrip
    /\ lock = NoneVal
    /\ \E block_window \in BlockWindows :
         lwma_diff = TimeStampAdjustment_new(block_window, TestTargetTime,
                                             TestInitialDifficulty)

NextTsa == TsaAdd

SpecTsa == InitTsa /\ [][NextTsa]_vars

Increasing(ds) == \A i \in 1..(Len(ds) - 1) : ds[i] < ds[i + 1]

\* C20: add fails with an error whenever accumulated_difficulty is less than or
\* equal to the accumulated difficulty of the last stored observation, and then
\* the window (timestamps and accumulated difficulties) is unchanged; so after
\* any sequence of adds the stored accumulated difficulties are strictly
\* increasing, whatever the timestamps are.
C20_AddStrictlyIncreasing ==
    [][/\ \A timestamp \in EpochTimes, accumulated_difficulty \in Difficulties :
            (/\ Add(timestamp, accumulated_difficulty)
             /\ lwma_diff.accumulated_difficulties # <<>>
             /\ accumulated_difficulty
                  <= lwma_diff.accumulated_difficulties[Len(lwma_diff.accumulated_difficulties)])
            => (last'.res # Ok /\ lwma_diff' = lwma_diff)
       /\ Increasing(lwma_diff'.accumulated_difficulties)]_vars

\* add has just been refused on a window that holds two observations whose
\* timestamps go backwards.
C20_RefusedOnBackwardStamps ==
    /\ last.op = "add"
    /\ last.res = StrictlyIncreasing
    /\ Len(lwma_diff.timestamps) >= 2
    /\ lwma_diff.timestamps[2] < lwma_diff.timestamps[1]
    /\ last.id <= lwma_diff.accumulated_difficulties[Len(lwma_diff.accumulated_difficulties)]

\* ------------------------------------------------------------------ get_difficulty
Min(a, b) == IF a < b THEN a ELSE b
Max(a, b) == IF a > b THEN a ELSE b

\* ceil(a / b) for a >= 0, b > 0.
CeilDiv(a, b) == (a + b - 1) \div b

RECURSIVE Gcd(_, _)
Gcd(a, b) == IF b = 0 THEN a ELSE Gcd(b, a % b)

\* The f64 values of calculate, kept as exact fractions in lowest terms (the
\* scenarios keep every intermediate value far below 2^53).
Q(n, d) == LET g == Gcd(n, d) IN [n |-> n \div g, d |-> d \div g]
QInt(i) == [n |-> i, d |-> 1]
QAdd(a, b) == Q(a.n * b.d + b.n * a.d, a.d * b.d)
QMul(a, b) ==
    LET g1 == Gcd(a.n, b.d)
        g2 == Gcd(b.n, a.d)
    IN  [n |-> (a.n \div g1) * (b.n \div g2), d |-> (a.d \div g2) * (b.d \div g1)]
QDiv(a, b) == QMul(a, [n |-> b.d, d |-> b.n])
QCeil(a) == CeilDiv(a.n, a.d)

\* LinearWeightedMovingAverage::get_difficulty, step 2: the clamped solve time
\* of interval i (between observations i and i + 1, counting from 1).
lwma_solve_time(w, i) ==
    LET raw_solve == IF w.timestamps[i + 1] <= w.timestamps[i]
                     THEN 1
                     ELSE w.timestamps[i + 1] - w.timestamps[i]
    IN  Min(raw_solve, 6 * w.target_time)

\* Step 3: S, the sum of i * solve_i over the intervals 1..i.
RECURSIVE weighted_times(_, _)
weighted_times(w, i) ==
    IF i = 0 THEN 0 ELSE i * lwma_solve_time(w, i) + weighted_times(w, i - 1)

\* Step 3: k = n (n + 1) / 2 * target_time.
lwma_k(w) ==
    LET n == Len(w.timestamps) - 1 IN ((n * (n + 1)) \div 2) * w.target_time

\* Step 4: diff_delta.
diff_delta(w) ==
    w.accumulated_difficulties[Len(w.accumulated_difficulties)]
        - w.accumulated_difficulties[1]

\* LinearWeightedMovingAverage::get_difficulty: initial_difficulty below two
\* observations, otherwise ceil(diff_delta * k / S), at least 1.
LinearWeightedMovingAverage_get_difficulty(w) ==
    IF Len(w.timestamps) < 2
    THEN w.initial_difficulty
    ELSE Max(1, CeilDiv(diff_delta(w) * lwma_k(w),
                        weighted_times(w, Len(w.timestamps) - 1)))

\* calculate, line 46.
R == 2

\* The approximation of e in calculate, line 85, as a fraction.
E_NUM == 271828
E_DEN == 100000

SubtractOverflow == "attempt to subtract with overflow"

\* A u64 beyond the numbers of the scenarios, standing for what a wrapped
\* subtraction leaves behind in a build without overflow checks.
MaxWrapped == 1
WrappedTargets == 0..MaxWrapped

\* calculate, lines 51-61: n, prev_timestamp, this_timestamp, the clamped
\* solve_time.  timestamps[i] of the source is w.timestamps[i + 1] here.
calc_n(w) == Len(w.timestamps) - 1
prev_timestamp(w) == w.timestamps[calc_n(w)]
this_timestamp(w) ==
    IF w.timestamps[calc_n(w) + 1] > prev_timestamp(w)
    THEN w.timestamps[calc_n(w) + 1]
    ELSE prev_timestamp(w) + 1
first_solve_time(w) == Min(this_timestamp(w) - prev_timestamp(w), 6 * w.target_time)

\* calculate, line 65: timestamps[n] - timestamps[0] is a u64 subtraction.
asc_overflows(w) == w.timestamps[calc_n(w) + 1] < w.timestamps[1]

\* calculate, lines 65-68: the accumulated solve time (when line 65 does not
\* overflow).
asc(w) ==
    LET a == w.timestamps[calc_n(w) + 1] - w.timestamps[1]
    IN  IF (a \div calc_n(w)) + 1 <= w.target_time \div R
        THEN ((a \div (calc_n(w) + 1)) \div w.target_time) * a
        ELSE a

\* calculate, line 69: the rescaled solve_time (a u64, so line 70 never acts).
solve_time(w) ==
    (first_solve_time(w) * (((asc(w) \div (calc_n(w) + 1)) * 1000) \div w.target_time))
        \div 1000

\* calculate, lines 73-79: the two conditions under which lwma_diff is
\* multiplied by 1/5.  prev_timestamp is timestamps[n - 1].
dampens(w) ==
    \/ /\ prev_timestamp(w) - w.timestamps[calc_n(w)] <= w.target_time \div R
       /\ solve_time(w) < w.target_time - (w.target_time \div 5)
    \/ solve_time(w) <= w.target_time \div 5

\* calculate, lines 83-87: exm / m after i turns of the loop.
RECURSIVE exm_loop(_)
exm_loop(i) ==
    IF i = 0 THEN QInt(1) ELSE QMul(exm_loop(i - 1), Q(E_NUM, E_DEN))

\* calculate, lines 88-96: exm / m after the four-term expansion in f.
exm(w) ==
    LET TR == w.target_time * R
        f  == QInt(solve_time(w) % TR)
        h4 == QAdd(QInt(1), QDiv(f, QInt(4 * TR)))
        h3 == QAdd(QInt(1), QDiv(QMul(f, h4), QInt(3 * TR)))
        h2 == QAdd(QInt(1), QDiv(QMul(f, h3), QInt(2 * TR)))
        h1 == QAdd(QInt(1), QDiv(QMul(f, h2), QInt(TR)))
    IN  QMul(exm_loop((solve_time(w) \div w.target_time) \div R), h1)

\* calculate, line 101: solve_time - target_time is a u64 subtraction.
expansion_overflows(w) == solve_time(w) < w.target_time

\* calculate, lines 98-103 and 108: the expanded difficulty (when line 101 does
\* not overflow); the factors 1000 and m cancel.
expanded(w, base) ==
    QCeil(QDiv(QMul(QInt(base),
                    QAdd(QInt(w.target_time),
                         QMul(QInt(solve_time(w) - w.target_time), exm(w)))),
               QInt(solve_time(w))))

Outcome(res, branch, target) == [res |-> res, branch |-> branch, target |-> target]

\* What a u64 subtraction with a negative result leads to: a panic in a build
\* with overflow checks, a wrapped number and whatever follows from it in a
\* build without.
Overflowed(branch) ==
    {Outcome(SubtractOverflow, branch, 0)}
        \cup {Outcome(Ok, "wrapped", t) : t \in WrappedTargets}

\* calculate, lines 43-109, for a window the early return has let through.
calculate_window(w) ==
    IF asc_overflows(w)
    THEN Overflowed("asc")
    ELSE LET base == LinearWeightedMovingAverage_get_difficulty(w)
         IN  IF dampens(w)
             THEN {Outcome(Ok, "dampen", CeilDiv(base, 5))}
             ELSE IF expansion_overflows(w)
                  THEN Overflowed("expansion")
                  ELSE {Outcome(Ok, "expansion", expanded(w, base))}

\* A calculate whose early return lets windows of two observations through.
calculate_from_two(w) ==
    IF Len(w.timestamps) <= 1
    THEN {Outcome(Ok, "initial", w.initial_difficulty)}
    ELSE calculate_window(w)

\* TimeStampAdjustment::calculate: the outcomes the builds of the code produce
\* on window w, each with the branch that produced it.
calculate(w) ==
    IF Len(w.timestamps) <= 2
    THEN {Outcome(Ok, "initial", w.initial_difficulty)}
    ELSE calculate_window(w)

\* Bounds of the get_difficulty scenarios.
CalcWindow == 2
CalcTargetTime == 5
MaxInitial == 2
MaxCalcStamp == 9
MaxCalcDifficulty == 4

CalcStamps == 0..MaxCalcStamp
CalcDifficulties == 1..MaxCalcDifficulty
InitialDifficulties == 1..MaxInitial

\* An engine holding window w; the wallet store is idle and never touched.
WithEngine(w) ==
    /\ db = InnerDatabase_new
    /\ now = 0
    /\ pc = [c \in {1} |-> Idle]
    /\ todo = [c \in {1} |-> <<>>]
    /\ last = Did("new", "new", <<>>, 0, Ok, TRUE)
    /\ call = [c \in {1} |-> NoCall]
    /\ start = InnerDatabase_new
    /\ open = NoTrip
    /\ lock = NoneVal
    /\ lwma_diff = w

EngineStep(w, did) ==
    /\ lwma_diff' = w
    /\ last' = did
    /\ UNCHANGED <<db, now, pc, todo, call, start, open, lock>>

\* add on the engine; last.id records the length of the window before it.
CalcAdd ==
    \E timestamp \in CalcStamps, accumulated_difficulty \in CalcDifficulties :
        LET r == TimeStampAdjustment_add(lwma_diff, timestamp, accumulated_difficulty)
        IN  EngineStep(r.lwma_diff,
                       Did("add", "add", <<>>, Len(lwma_diff.timestamps), r.res, TRUE))

\* TimeStampAdjustment::get_difficulty.
GetDifficulty ==
    \E o \in calculate(lwma_diff) :
        EngineStep(lwma_diff, Did("get_difficulty", "calculate", <<o.branch>>,
                                  o.target, o.res, TRUE))

\* get_difficulty of the wrapped LinearWeightedMovingAverage.
LwmaGetDifficulty ==
    EngineStep(lwma_diff,
               Did("lwma_get_difficulty", "get_difficulty", <<>>,
                   LinearWeightedMovingAverage_get_difficulty(lwma_diff), Ok, TRUE))

InitCalc ==
    \E initial_difficulty \in InitialDifficulties :
        WithEngine(TimeStampAdjustment_new(CalcWindow, CalcTargetTime, initial_difficulty))

NextCalc ==
    \/ CalcAdd
    \/ GetDifficulty
    \/ LwmaGetDifficulty

SpecCalc == InitCalc /\ [][NextCalc]_vars

\* C21: TimeStampAdjustment::get_difficulty returns initial_difficulty for every
\* window of 0, 1 or 2 observations, whatever their timestamps and accumulated
\* difficulties; the LWMA baseline returns initial_difficulty for 0 or 1
\* observations.
C21_InitialDifficultyOnShortWindows ==
    [][/\ (GetDifficulty /\ Len(lwma_diff.timestamps) <= 2)
          => (last'.res = Ok /\ last'.id = lwma_diff.initial_difficulty)
       /\ (LwmaGetDifficulty /\ Len(lwma_diff.timestamps) <= 1)
          => last'.id = lwma_diff.initial_difficulty]_vars

\* get_difficulty has returned initial_difficulty on a window of two
\* observations on which the LWMA baseline computes another value.
C21_InitialOnTwoObservations ==
    /\ last.public = "get_difficulty"
    /\ Len(lwma_diff.timestamps) = 2
    /\ last.id = lwma_diff.initial_difficulty
    /\ LinearWeightedMovingAverage_get_difficulty(lwma_diff) # lwma_diff.initial_difficulty

\* C24: after any sequence of adds the window holds at most block_window + 1
\* observations and as many timestamps as accumulated difficulties; a
\* successful add on a full window evicts exactly the oldest observation, the
\* others keeping their order before the new one, and a successful add on any
\* other window evicts nothing.
C24_WindowBoundedOldestEvicted ==
    [][/\ Len(lwma_diff'.timestamps) <= lwma_diff'.block_window + 1
       /\ Len(lwma_diff'.timestamps) = Len(lwma_diff'.accumulated_difficulties)
       /\ (CalcAdd /\ last'.res = Ok)
          => \E t \in CalcStamps, d \in CalcDifficulties :
                IF Len(lwma_diff.timestamps) = lwma_diff.block_window + 1
                THEN /\ lwma_diff'.timestamps = Append(Tail(lwma_diff.timestamps), t)
                     /\ lwma_diff'.accumulated_difficulties =
                            Append(Tail(lwma_diff.accumulated_difficulties), d)
                ELSE /\ lwma_diff'.timestamps = Append(lwma_diff.timestamps, t)
                     /\ lwma_diff'.accumulated_difficulties =
                            Append(lwma_diff.accumulated_difficulties, d)]_vars

\* A successful add on a window that was full has left it full.
C24_AddedToFullWindow ==
    /\ last.public = "add"
    /\ last.res = Ok
    /\ last.id = lwma_diff.block_window + 1
    /\ Len(lwma_diff.timestamps) = lwma_diff.block_window + 1

\* C25: get_difficulty is deterministic: two engines with the same configuration
\* that received the same adds hold the same window, and every node returns the
\* same difficulty on it, whatever build of the code it runs.
C25_SameDifficultyOnEveryNode ==
    [][GetDifficulty
       => \A other \in calculate(lwma_diff) :
              other.res = last'.res /\ other.target = last'.id]_vars

\* C26: on a window of more than 2 observations (whose accumulated solve time
\* is computed without overflow) the dampened result ceil(base / 5) is
\* produced if and only if the rescaled solve_time is at most target_time / 5;
\* for every larger solve_time the expansion branch is taken.
C26_DampenedIffShortSolveTime ==
    [][(GetDifficulty /\ Len(lwma_diff.timestamps) > 2 /\ ~asc_overflows(lwma_diff))
       => IF solve_time(lwma_diff) <= lwma_diff.target_time \div 5
          THEN /\ last'.key = <<"dampen">>
               /\ last'.id = CeilDiv(LinearWeightedMovingAverage_get_difficulty(lwma_diff), 5)
          ELSE last'.key = <<"expansion">>]_vars

\* ------------------------------------------------------------------ the authors' test vectors
\* LinearWeightedMovingAverage::new(5, 60, 1) of tsa_calculate and
\* tsa_limit_difficulty_change.
VecWindow == 5
VecTargetTime == 60
VecInitial == 1

\* tsa_calculate: the adds, (timestamp, accumulated difficulty).
tsa_calculate_adds ==
    << <<60, 100>>, <<120, 200>>, <<180, 300>>, <<240, 400>>, <<300, 500>>,
       <<350, 605>>, <<380, 733>>, <<445, 856>>, <<515, 972>>, <<615, 1066>>,
       <<975, 1105>>, <<976, 1151>>, <<977, 1206>>, <<978, 1281>>, <<979, 1429>> >>

\* Test values of which the second is not the one asserted.
tsa_calculate_targets_off ==
    <<1, 101, 100, 100, 100, 107, 136, 130, 120, 94, 36, 39, 47, 67, 175>>

\* tsa_calculate: the difficulty asserted after each add.
tsa_calculate_targets ==
    <<1, 100, 100, 100, 100, 107, 136, 130, 120, 94, 36, 39, 47, 67, 175>>

\* tsa_limit_difficulty_change: the adds, and the difficulty asserted after the
\* second and the third.
tsa_limit_adds == << <<60, 100>>, <<10000000, 200>>, <<20000000, 216>> >>
tsa_limit_targets == (2 :> 17) @@ (3 :> 10)

VecPairs == Range(tsa_calculate_adds) \cup Range(tsa_limit_adds)

\* The window a test holds after its first i adds.
RECURSIVE TestWindow(_, _)
TestWindow(adds, i) ==
    IF i = 0
    THEN TimeStampAdjustment_new(VecWindow, VecTargetTime, VecInitial)
    ELSE LinearWeightedMovingAverage_add(TestWindow(adds, i - 1),
                                         adds[i][1], adds[i][2]).lwma_diff

VecAdd ==
    \E pair \in VecPairs :
        LET r == LinearWeightedMovingAverage_add(lwma_diff, pair[1], pair[2])
        IN  EngineStep(r.lwma_diff, Did("add", "add", <<>>, 0, r.res, TRUE))

InitVec == WithEngine(TimeStampAdjustment_new(VecWindow, VecTargetTime, VecInitial))

NextVec ==
    \/ VecAdd
    \/ LwmaGetDifficulty

SpecVec == InitVec /\ [][NextVec]_vars

\* The difficulty of the average difficulty per interval: ceil(diff_delta * k /
\* (n * S)).
PerInterval(w) ==
    LET n == Len(w.timestamps) - 1
    IN  CeilDiv(diff_delta(w) * lwma_k(w), n * weighted_times(w, n))

MaxNegWindow == 3
MaxSpacing == 4
MaxIncrement == 3
MaxBackward == 3

NegWindows == 2..MaxNegWindow
Spacings == 1..MaxSpacing
Increments == 1..MaxIncrement

\* The window after more than block_window adds at spacing s and increment c:
\* block_window + 1 observations, the oldest at time MaxBackward.
Primed(block_window, s, c) ==
    [TimeStampAdjustment_new(block_window, CalcTargetTime, TestInitialDifficulty)
        EXCEPT !.timestamps = [j \in 1..(block_window + 1) |-> MaxBackward + (j - 1) * s],
               !.accumulated_difficulties = [j \in 1..(block_window + 1) |-> j * c]]

InitNeg ==
    \E block_window \in NegWindows, s \in Spacings, c \in Increments :
        WithEngine(Primed(block_window, s, c))

\* The turns of the second loop done so far.
Turns == IF last.public = "new" THEN 0 ELSE last.key[1]

\* One turn of the second loop of tsa_negative_solve_times: diff_before, an add
\* one second before the previous timestamp with a larger accumulated
\* difficulty, diff_after.  last records the turn, diff_before and diff_after.
NegativeSolveTime ==
    /\ Turns < MaxBackward
    /\ last.res = Ok
    /\ \E c \in Increments, diff_before \in calculate(lwma_diff) :
         LET n == Len(lwma_diff.timestamps)
             r == TimeStampAdjustment_add(lwma_diff, lwma_diff.timestamps[n] - 1,
                                          lwma_diff.accumulated_difficulties[n] + c)
         IN  IF diff_before.res # Ok
             THEN EngineStep(lwma_diff,
                             Did("tsa_negative_solve_times", "get_difficulty",
                                 <<Turns + 1, 0>>, 0, diff_before.res, TRUE))
             ELSE \E diff_after \in calculate(r.lwma_diff) :
                      EngineStep(r.lwma_diff,
                                 Did("tsa_negative_solve_times", "get_difficulty",
                                     <<Turns + 1, diff_before.target>>,
                                     diff_after.target, diff_after.res, TRUE))

NextNeg == NegativeSolveTime

SpecNeg == InitNeg /\ [][NextNeg]_vars

\* C23: on a window filled at a constant positive spacing with constant
\* difficulty increments, each further add one second before the previous
\* timestamp and with a larger accumulated difficulty makes get_difficulty
\* after the add strictly greater than get_difficulty before it.
C23_DifficultyRisesOnNegativeSolveTimes ==
    [][NegativeSolveTime => (last'.res = Ok /\ last'.id > last'.key[2])]_vars

\* ------------------------------------------------------------------ the lock and the bulk operations
\* SpecFair: MaxClient clients encumber, confirm, cancel, clear and time out
\* on one store while the clock runs.  A client inside a bulk operation waits
\* for the write lock before every cancellation; the lock is fair, so a client
\* that can take it whenever it looks does take it.
InitFair == Constructed(Clients)

NextFair ==
    \/ \E c \in DOMAIN pc : ShortTermEncumberOutputs(c) /\ ConcBounded
    \/ \E c \in DOMAIN pc : ConfirmEncumberedOutputs(c)
    \/ \E c \in DOMAIN pc : CancelPendingTransaction(c)
    \/ \E c \in DOMAIN pc : ClearShortTermEncumberances(c)
    \/ \E c \in DOMAIN pc : TimeoutPendingTransactions(c)
    \/ \E c \in DOMAIN pc : CancelNext(c)
    \/ Tick

SpecFair ==
    /\ InitFair
    /\ [][NextFair]_vars
    /\ \A c \in Clients : WF_vars(CancelNext(c))

\* C27: a client inside clear_short_term_encumberances or
\* timeout_pending_transactions never holds the store lock when it invokes
\* cancel_pending_transaction, its next cancellation can always be taken, and
\* with a fair lock its call eventually returns.
C27_BulkCallsReturn ==
    /\ [](\A c \in Clients : pc[c] # Idle => (lock = NoneVal /\ ENABLED CancelNext(c)))
    /\ \A c \in Clients : (pc[c] # Idle) ~> (pc[c] = Idle)

\* Both clients are inside a bulk operation, one of them with two
\* cancellations still to make.
C27_TwoBulkCallsUnderWay ==
    /\ \A c \in Clients : pc[c] # Idle
    /\ \E c \in Clients : Len(todo[c]) = 2

\* ------------------------------------------------------------------ bulk calls among other clients
\* A bulk call client c has issued and the tx_ids it has cancelled so far.
Cancelling(op, cancelled) == [op |-> op, arg |-> cancelled, res |-> ""]

\* The call record after a snapshot or a collection of client c.
Issued(c) ==
    IF last'.returned
    THEN UNCHANGED call
    ELSE call' = [call EXCEPT ![c] = Cancelling(last'.public, <<>>)]

AtomClear(c) ==
    /\ Quiet(c)
    /\ ClearSnapshot(c)
    /\ Issued(c)
    /\ UNCHANGED start

AtomTimeout(c) ==
    /\ Quiet(c)
    /\ \E period \in Periods : TimeoutCollect(c, period)
    /\ Issued(c)
    /\ UNCHANGED start

\* A loop turn of a bulk call: a cancellation that took effect is recorded
\* until the call returns.
AtomCancelNext(c) ==
    /\ ~Quiet(c)
    /\ CancelTurn(c)
    /\ call' = [call EXCEPT
                   ![c] = IF last'.returned THEN NoCall
                          ELSE [@ EXCEPT !.arg = Append(@, last'.id)]]
    /\ UNCHANGED start

\* SpecAtom: MaxClient clients fetch and remove bundles, encumber, confirm and
\* cancel on one store while the clock runs, and make bulk calls that are
\* watched from the snapshot to the return.
InitAtom == Constructed(Clients)

\* The step is a fetch of bundles: of one tx_id or of all.
OfBundles ==
    last'.key \in {<<"PendingTransactionOutputs">>, <<"AllPendingTransactionOutputs">>}

NextAtom ==
    \/ \E c \in DOMAIN pc : Fetch(c) /\ OfBundles
    \/ \E c \in DOMAIN pc : WriteRemove(c)
    \/ \E c \in DOMAIN pc : ShortTermEncumberOutputs(c) /\ ConcBounded
    \/ \E c \in DOMAIN pc : ConfirmEncumberedOutputs(c)
    \/ \E c \in DOMAIN pc : CancelPendingTransaction(c)
    \/ \E c \in DOMAIN pc : AtomClear(c)
    \/ \E c \in DOMAIN pc : AtomTimeout(c)
    \/ \E c \in DOMAIN pc : AtomCancelNext(c)
    \/ Tick

SpecAtom == InitAtom /\ [][NextAtom]_vars

\* C28: no fetch or write of another client runs while a bulk operation has
\* cancelled some of its selected bundles and not yet the others, and a bulk
\* operation that returns an error has cancelled none.
C28_BulkOperationsAtomic ==
    [][\A c \in Clients :
          /\ (~Quiet(c) /\ call[c].arg # <<>> /\ call'[c] = call[c])
                => last'.op \notin {"fetch", "write"}
          /\ (~Quiet(c) /\ Quiet(c)' /\ last'.res # Ok)
                => call[c].arg = <<>>]_vars

\* ------------------------------------------------------------------ the bundle of a tx_id
\* What fetch(PendingTransactionOutputs(tx_id)) returns on store d: an Option.
fetched_bundle(d, tx_id) == fetch(d, DbKey("PendingTransactionOutputs", tx_id)).val

\* What fetch(AllPendingTransactionOutputs) returns on store d: the map.
fetched_bundles(d) == Unwrap(fetch(d, DbKey("AllPendingTransactionOutputs", 0)).val).v

\* C29: at every fetch, for every tx_id, the bundle fetched by tx_id and the
\* entry of tx_id among all the bundles fetched are both absent or are the
\* same bundle, and the fetch leaves the store as it was.
C29_OneAndAllAgree ==
    [][last'.op = "fetch" =>
          /\ db' = db
          /\ \A t \in TxIds :
                IF IsSome(fetched_bundle(db, t))
                THEN /\ t \in DOMAIN fetched_bundles(db)
                     /\ fetched_bundles(db)[t] = Unwrap(fetched_bundle(db, t)).v
                ELSE t \notin DOMAIN fetched_bundles(db)]_vars

\* C30: a write(Remove(PendingTransactionOutputs(tx_id))) returns Ok and the
\* bundle when the fetch of tx_id on the same store returns a bundle, and
\* returns ValueNotFound only when that fetch returns nothing.
C30_RemoveFindsWhatFetchFinds ==
    [][(last'.op = "write" /\ last'.key = <<"Remove", "PendingTransactionOutputs">>) =>
          LET r == write(db, Remove("PendingTransactionOutputs", last'.id))
              f == fetched_bundle(db, last'.id)
          IN /\ last'.res = r.res
             /\ IsSome(f) => (r.res = Ok /\ r.val = Some(Unwrap(f).v))
             /\ r.res = ValueNotFound => ~IsSome(f)]_vars

\* ------------------------------------------------------------------ no reserved output is dropped
\* Spending key k is kept by store d: in unspent, spent or invalid, or among
\* the outputs_to_be_spent of a bundle of one of the two pending maps.
Kept(d, k) ==
    \/ ~InNoSet(d, k)
    \/ \E h \in HeldBundles(d) : any(BundleAt(d, h).outputs_to_be_spent, k)

\* C31: with no write(Remove), a spending key that unspent, spent, invalid or
\* the outputs_to_be_spent of a bundle holds is still held by one of them
\* after every step of short_term_encumber_outputs (also on a tx_id that has a
\* bundle), confirm_encumbered_outputs, confirm_transaction,
\* cancel_pending_transaction, clear_short_term_encumberances,
\* timeout_pending_transactions and invalidate_unspent_output.
C31_NoReservedOutputDropped ==
    [][\A k \in Keys : Kept(db, k) => Kept(db', k)]_vars

\* ------------------------------------------------------------------ what a clear cancels
\* C32: a cancellation made by clear_short_term_encumberances, whatever the
\* other clients did since its snapshot, removes no bundle from pending, and
\* when its tx_id has a bundle in pending it returns no output to unspent.
C32_ClearCancelsShortTermOnly ==
    [][(/\ last'.public = "clear_short_term_encumberances"
        /\ last'.op = "cancel_pending_transaction"
        /\ last' # last)
          => /\ db'.pending_transactions = db.pending_transactions
             /\ last'.id \in DOMAIN db.pending_transactions
                   => db'.unspent_outputs = db.unspent_outputs]_vars

\* ------------------------------------------------------------------ the unsigned subtractions of calculate
\* C33: when get_difficulty runs calculate on a window of more than 2
\* observations, timestamps[n] is at least timestamps[0] where asc is
\* computed, and solve_time is at least target_time where the expansion
\* branch computes solve_time - target_time.
C33_NoNegativeSubtraction ==
    [][(GetDifficulty /\ Len(lwma_diff.timestamps) > 2)
          => /\ ~asc_overflows(lwma_diff)
             /\ ~dampens(lwma_diff) => ~expansion_overflows(lwma_diff)]_vars

\* ------------------------------------------------------------------ the lists as sets
\* C34: after any sequence of public store operations each of unspent, spent
\* and invalid holds every spending key at most once.
C34_ListsHoldEachKeyOnce ==
    \A k \in Keys :
        /\ Count(db.unspent_outputs, k) <= 1
        /\ Count(db.spent_outputs, k) <= 1
        /\ Count(db.invalid_outputs, k) <= 1

====
